---- MODULE Spec2Model ----
(***************************************************************************)
(* Service registry of git-commit-helper (src/src/config.rs): the Config   *)
(* record with its list of AIServiceConfig entries, the default-service    *)
(* resolution, the identifier generator, load/save of the configuration    *)
(* file, and the add / edit / remove / set-default / interactive-setup     *)
(* handlers.                                                               *)
(*                                                                         *)
(* Representation:                                                         *)
(*   - a Rust Option<T> is <<>> (None) or <<v>> (Some(v)); the same shape  *)
(*     is used for a field of the stored JSON document that may be absent; *)
(*   - a service id "service_<ms>_<n>" is the pair <<ms, n>> (the decimal   *)
(*     fields separated by "_" make the formatting injective), the empty   *)
(*     string is <<>>;                                                     *)
(*   - the configuration file is one location (the path override is not    *)
(*     modelled): absent, unparseable, or a JSON document.                 *)
(***************************************************************************)
EXTENDS Integers, Sequences, FiniteSets, TLC

VARIABLES
    config,     \* the in-memory Config of the running process
    store,      \* the configuration file
    COUNTER,    \* static COUNTER of generate_service_id
    pc,         \* position of the running process
    local,      \* local variables of the handler in progress
    ret,        \* outcome of the last handler that returned
    snap,       \* history: config when the last handler was entered
    run         \* history: number of the process run

vars == <<config, store, COUNTER, pc, local, ret, snap, run>>

(***************************************************************************)
(* Bounds of the model.                                                    *)
(***************************************************************************)
MaxServices == 2    \* entries a registry may hold
MaxClock == 2       \* the wall clock reads a millisecond in 1..MaxClock
MaxIds == 3         \* generate_service_id calls in one process run
MaxRuns == 2        \* process runs
MaxCalls == 6       \* generate_service_id calls of the generator on its own

(***************************************************************************)
(* Program constants.                                                      *)
(***************************************************************************)
default_timeout == 20

default_max_tokens == 2048

default_ai_review == TRUE

default_only_chinese == FALSE

default_only_english == FALSE

default_service_type == "OpenAI"

AIService == {"DeepSeek", "OpenAI", "Claude", "Copilot", "Gemini", "Grok", "Qwen"}

\* The kinds the model's inputs range over: a key-based kind (the serde
\* default) and the token-based kind.
Kinds == {"OpenAI", "Copilot"}

None == <<>>

Some(v) == <<v>>

EmptyId == <<>>

Clock == 1 .. MaxClock

(***************************************************************************)
(* generate_service_id: format!("service_{}_{}", timestamp, counter); the  *)
(* counter is COUNTER.fetch_add(1).  The AtomicU32 wraps at 2^32; every    *)
(* action that generates identifiers is guarded by MaxIds, far below it,   *)
(* so the addition never wraps in this model.                              *)
(***************************************************************************)
\* A variant that formats the timestamp alone.
generate_service_id_timestamp_only(timestamp, counter) == <<timestamp, 0>>

generate_service_id(timestamp, counter) == <<timestamp, counter>>

fetch_add(counter) == counter + 1

(***************************************************************************)
(* Config::new.                                                            *)
(***************************************************************************)
NewConfig ==
    [ default_service_id |-> EmptyId,
      default_service    |-> "OpenAI",
      services           |-> <<>>,
      ai_review          |-> TRUE,
      timeout_seconds    |-> default_timeout,
      max_tokens         |-> default_max_tokens,
      gerrit             |-> None,
      only_chinese       |-> FALSE,
      only_english       |-> FALSE ]

(***************************************************************************)
(* The configuration file.  A document holds each field of Config as an    *)
(* option (absent or present); an entry's api_endpoint and model are       *)
(* Option<String> (absent and null both read as None) and its id is        *)
(* absent, or present (possibly the empty string).                         *)
(***************************************************************************)
NoDoc ==
    [ default_service_id |-> None,
      default_service    |-> None,
      services           |-> <<>>,
      ai_review          |-> None,
      timeout_seconds    |-> None,
      max_tokens         |-> None,
      gerrit             |-> None,
      only_chinese       |-> None,
      only_english       |-> None ]

NoFile == [state |-> "absent", doc |-> NoDoc]

BadFile == [state |-> "unparseable", doc |-> NoDoc]

File(doc) == [state |-> "file", doc |-> doc]

\* serde_json::to_string_pretty(&self): every field is written.
SerializeEntry(e) ==
    [ service      |-> e.service,
      api_key      |-> e.api_key,
      api_endpoint |-> e.api_endpoint,
      model        |-> e.model,
      id           |-> Some(e.id) ]

Serialize(c) ==
    [ default_service_id |-> Some(c.default_service_id),
      default_service    |-> Some(c.default_service),
      services           |-> [i \in 1 .. Len(c.services) |-> SerializeEntry(c.services[i])],
      ai_review          |-> Some(c.ai_review),
      timeout_seconds    |-> Some(c.timeout_seconds),
      max_tokens         |-> Some(c.max_tokens),
      gerrit             |-> Some(c.gerrit),
      only_chinese       |-> Some(c.only_chinese),
      only_english       |-> Some(c.only_english) ]

\* A variant that takes the default whatever the file holds.
OrDefault_ignoring_stored(opt, d) == d

\* A field with a serde default: the stored value, or the default when the
\* document has no such field.
OrDefault(opt, d) == IF opt = None THEN d ELSE opt[1]

(***************************************************************************)
(* serde_json::from_str into Config.  An entry without id gets             *)
(* generate_service_id() (the serde default), in document order; clk[k] is *)
(* what the clock reads at the k-th call of this load.  Returns the Config *)
(* and the number of identifiers generated.                                *)
(***************************************************************************)
MissingIdsBefore(ss, i) == Cardinality({j \in 1 .. (i - 1) : ss[j].id = None})

\* A variant that reads no api_endpoint.
DeserializeEntry_dropping_endpoint(ss, i, clk, counter) ==
    LET k == MissingIdsBefore(ss, i)
    IN  [ service      |-> ss[i].service,
          api_key      |-> ss[i].api_key,
          api_endpoint |-> None,
          model        |-> ss[i].model,
          id           |-> IF ss[i].id = None
                           THEN generate_service_id(clk[k + 1], counter + k)
                           ELSE ss[i].id[1] ]

DeserializeEntry(ss, i, clk, counter) ==
    LET k == MissingIdsBefore(ss, i)
    IN  [ service      |-> ss[i].service,
          api_key      |-> ss[i].api_key,
          api_endpoint |-> ss[i].api_endpoint,
          model        |-> ss[i].model,
          id           |-> IF ss[i].id = None
                           THEN generate_service_id(clk[k + 1], counter + k)
                           ELSE ss[i].id[1] ]

Deserialize(doc, clk, counter) ==
    [ cfg |->
        [ default_service_id |-> OrDefault(doc.default_service_id, EmptyId),
          default_service    |-> OrDefault(doc.default_service, default_service_type),
          services           |-> [i \in 1 .. Len(doc.services) |->
                                     DeserializeEntry(doc.services, i, clk, counter)],
          ai_review          |-> OrDefault(doc.ai_review, default_ai_review),
          timeout_seconds    |-> OrDefault(doc.timeout_seconds, default_timeout),
          max_tokens         |-> OrDefault(doc.max_tokens, default_max_tokens),
          gerrit             |-> OrDefault(doc.gerrit, None),
          only_chinese       |-> OrDefault(doc.only_chinese, default_only_chinese),
          only_english       |-> OrDefault(doc.only_english, default_only_english) ],
      used |-> MissingIdsBefore(doc.services, Len(doc.services) + 1) ]

(***************************************************************************)
(* Config::ensure_service_ids: an entry whose id is empty gets a generated *)
(* one; an empty default_service_id becomes the first entry's id.  `first` *)
(* is the number of clock readings already used by this load.              *)
(***************************************************************************)
EmptyIdsBefore(ss, i) == Cardinality({j \in 1 .. (i - 1) : ss[j].id = EmptyId})

\* A variant that generates the ids and leaves an empty default_service_id.
ensure_service_ids_without_default(c, clk, first, counter) ==
    LET ss == [i \in 1 .. Len(c.services) |->
                  IF c.services[i].id = EmptyId
                  THEN [c.services[i] EXCEPT !.id =
                           generate_service_id(
                               clk[first + EmptyIdsBefore(c.services, i) + 1],
                               counter + EmptyIdsBefore(c.services, i))]
                  ELSE c.services[i]]
    IN  [ cfg |-> [c EXCEPT !.services = ss],
          used |-> EmptyIdsBefore(c.services, Len(c.services) + 1) ]

\* A variant that makes the first entry the default at every load.
ensure_service_ids_resets_default(c, clk, first, counter) ==
    LET ss == [i \in 1 .. Len(c.services) |->
                  IF c.services[i].id = EmptyId
                  THEN [c.services[i] EXCEPT !.id =
                           generate_service_id(
                               clk[first + EmptyIdsBefore(c.services, i) + 1],
                               counter + EmptyIdsBefore(c.services, i))]
                  ELSE c.services[i]]
    IN  [ cfg |-> [c EXCEPT !.services = ss,
                            !.default_service_id =
                                IF Len(ss) > 0 THEN ss[1].id
                                ELSE c.default_service_id],
          used |-> EmptyIdsBefore(c.services, Len(c.services) + 1) ]

ensure_service_ids(c, clk, first, counter) ==
    LET ss == [i \in 1 .. Len(c.services) |->
                  IF c.services[i].id = EmptyId
                  THEN [c.services[i] EXCEPT !.id =
                           generate_service_id(
                               clk[first + EmptyIdsBefore(c.services, i) + 1],
                               counter + EmptyIdsBefore(c.services, i))]
                  ELSE c.services[i]]
    IN  [ cfg |-> [c EXCEPT !.services = ss,
                            !.default_service_id =
                                IF c.default_service_id = EmptyId /\ Len(ss) > 0
                                THEN ss[1].id
                                ELSE c.default_service_id],
          used |-> EmptyIdsBefore(c.services, Len(c.services) + 1) ]

(***************************************************************************)
(* Config::get_default_service: the position of the entry it returns, 0    *)
(* when it returns the error.  `find` is the first match in order.         *)
(***************************************************************************)
HasId(ss, id) == \E i \in 1 .. Len(ss) : ss[i].id = id

RECURSIVE FindById(_, _, _)
FindById(ss, i, id) ==
    IF i > Len(ss) THEN 0
    ELSE IF ss[i].id = id THEN i
    ELSE FindById(ss, i + 1, id)

RECURSIVE FindByKind(_, _, _)
FindByKind(ss, i, kind) ==
    IF i > Len(ss) THEN 0
    ELSE IF ss[i].service = kind THEN i
    ELSE FindByKind(ss, i + 1, kind)

\* A variant that tries the legacy kind lookup before the id lookup.
get_default_service_kind_first(c) ==
    IF Len(c.services) = 0 THEN 0
    ELSE LET byId == IF c.default_service_id # EmptyId
                     THEN FindById(c.services, 1, c.default_service_id)
                     ELSE 0
             byKind == FindByKind(c.services, 1, c.default_service)
         IN  IF byKind # 0 THEN byKind
             ELSE IF byId # 0 THEN byId
             ELSE 1

\* A variant without the guard on the empty list.
get_default_service_unguarded(c) ==
    LET byId == IF c.default_service_id # EmptyId
                THEN FindById(c.services, 1, c.default_service_id)
                ELSE 0
        byKind == FindByKind(c.services, 1, c.default_service)
    IN  IF byId # 0 THEN byId
        ELSE IF byKind # 0 THEN byKind
        ELSE 1

get_default_service(c) ==
    IF Len(c.services) = 0 THEN 0
    ELSE LET byId == IF c.default_service_id # EmptyId
                     THEN FindById(c.services, 1, c.default_service_id)
                     ELSE 0
             byKind == FindByKind(c.services, 1, c.default_service)
         IN  IF byId # 0 THEN byId
             ELSE IF byKind # 0 THEN byKind
             ELSE 1

(***************************************************************************)
(* Config::is_default_service.                                             *)
(***************************************************************************)
is_default_service(c, s) ==
    IF c.default_service_id # EmptyId
    THEN s.id = c.default_service_id
    ELSE s.service = c.default_service

(***************************************************************************)
(* Config::save: create_dir_all, then fs::write of the pretty-printed      *)
(* JSON.  The results it can have on the file: written; not touched        *)
(* (create_dir_all or the open failed); truncated and then failed.         *)
(***************************************************************************)
\* A variant that reports success and writes nothing.
save_without_write(c, file) == { [ok |-> TRUE, store |-> file] }

save(c, file) ==
    { [ok |-> TRUE,  store |-> File(Serialize(c))],
      [ok |-> FALSE, store |-> file],
      [ok |-> FALSE, store |-> BadFile] }

(***************************************************************************)
(* What the user and the collaborators feed one run of                     *)
(* input_service_config_with_default: the typed key, endpoint and model    *)
(* (None: left empty), the GitHub token, and whether the Copilot client    *)
(* lists models.                                                           *)
(***************************************************************************)
Token == "tok"

UserInputs ==
    { [api_key |-> "k1", api_endpoint |-> None, model |-> None, listed |-> FALSE],
      [api_key |-> "k2", api_endpoint |-> Some("e1"), model |-> None, listed |-> TRUE] }

(***************************************************************************)
(* Config::input_service_config_with_default, on the paths that return Ok: *)
(* the entry it returns and whether it called generate_service_id.         *)
(***************************************************************************)
input_service_config_with_default(default, inp, timestamp, counter) ==
    IF default.service = "Copilot"
    THEN IF default.api_key # ""
         THEN [ entry |->
                  [ service      |-> default.service,
                    api_key      |-> default.api_key,
                    api_endpoint |-> None,
                    model        |-> IF inp.model # None THEN inp.model
                                     ELSE IF inp.listed
                                          THEN Some(OrDefault(default.model, "copilot-chat"))
                                          ELSE Some("copilot-chat"),
                    id           |-> default.id ],
                used |-> 0 ]
         ELSE [ entry |->
                  [ service      |-> "Copilot",
                    api_key      |-> Token,
                    api_endpoint |-> None,
                    model        |-> IF inp.listed /\ inp.model # None THEN inp.model
                                     ELSE Some("copilot-chat"),
                    id           |-> generate_service_id(timestamp, counter) ],
                used |-> 1 ]
    ELSE [ entry |->
             [ service      |-> default.service,
               api_key      |-> inp.api_key,
               api_endpoint |-> inp.api_endpoint,
               model        |-> inp.model,
               id           |-> IF default.id = EmptyId
                                THEN generate_service_id(timestamp, counter)
                                ELSE default.id ],
           used |-> IF default.id = EmptyId THEN 1 ELSE 0 ]

(***************************************************************************)
(* Config::input_service_config: the blank entry it starts from takes one  *)
(* identifier before any prompt.                                           *)
(***************************************************************************)
BlankEntry(service, timestamp, counter) ==
    [ service      |-> service,
      api_key      |-> "",
      api_endpoint |-> None,
      model        |-> None,
      id           |-> generate_service_id(timestamp, counter) ]

(***************************************************************************)
(* Outcomes and handler-local state.                                       *)
(***************************************************************************)
Ret(op, res, why, idx) == [op |-> op, res |-> res, why |-> why, idx |-> idx]

NoRet == Ret("none", "none", "", 0)

Running(op) == Ret(op, "none", "", 0)

NoSnap == NewConfig

NoLocal == [service |-> "", entry |-> None, services |-> <<>>, default_index |-> 0]

Mutations == {"add", "edit", "remove", "set_default"}

(***************************************************************************)
(* The configuration files a first process run may find: none, or one left *)
(* by a release that wrote no identifiers (entries without id or with an   *)
(* empty id, no default_service_id, possibly no default_service and no     *)
(* policy fields).  The Copilot entry of such a file carries its token, or *)
(* in BlankTokenStores an empty api_key, the case the edit prompt          *)
(* provides for with its renewal of the token.                             *)
(***************************************************************************)
LegacyEntry(service, api_key, id) ==
    [ service      |-> service,
      api_key      |-> api_key,
      api_endpoint |-> None,
      model        |-> None,
      id           |-> id ]

LegacyServices(token) ==
    { [j \in 1 .. Len(ks) |->
          LegacyEntry(ks[j], IF ks[j] = "Copilot" THEN token ELSE "k1", i)] :
        ks \in {<<"OpenAI">>, <<"Copilot">>, <<"OpenAI", "Copilot">>, <<"Copilot", "OpenAI">>},
        i \in {None, Some(EmptyId)} }

LegacyDocs(token) ==
    { [NoDoc EXCEPT !.services = ss, !.default_service = k] :
        ss \in LegacyServices(token), k \in {None, Some("Copilot")} }

InitialStores == {NoFile} \cup { File(d) : d \in LegacyDocs(Token) }

BlankTokenStores == {NoFile} \cup { File(d) : d \in LegacyDocs("") }

Start(stores) ==
    /\ config = NewConfig
    /\ store \in stores
    /\ COUNTER = 0
    /\ pc = "start"
    /\ local = NoLocal
    /\ ret = NoRet
    /\ snap = NoSnap
    /\ run = 1

Init == Start(InitialStores)

InitBlankToken == Start(BlankTokenStores)

(***************************************************************************)
(* Config::new.                                                            *)
(***************************************************************************)
New ==
    /\ pc = "start"
    /\ config' = NewConfig
    /\ pc' = "returned"
    /\ snap' = config
    /\ ret' = Ret("new", "ok", "", 0)
    /\ UNCHANGED <<store, COUNTER, local, run>>

(***************************************************************************)
(* Config::load.                                                           *)
(***************************************************************************)
IdsToGenerate(doc) ==
    Cardinality({j \in 1 .. Len(doc.services) :
                    doc.services[j].id = None \/ doc.services[j].id = Some(EmptyId)})

\* A variant that writes the migrated Config back to the file.
Load_writing_migration ==
    /\ pc \in {"start", "idle"}
    /\ snap' = config
    /\ store.state = "file"
    /\ COUNTER + IdsToGenerate(store.doc) <= MaxIds
    /\ \E clk \in [1 .. IdsToGenerate(store.doc) -> Clock] :
          LET parsed == Deserialize(store.doc, clk, COUNTER)
              counter1 == COUNTER + parsed.used
              ensured == ensure_service_ids(parsed.cfg, clk, parsed.used, counter1)
          IN  /\ config' = ensured.cfg
              /\ COUNTER' = counter1 + ensured.used
              /\ store' = File(Serialize(ensured.cfg))
    /\ ret' = Ret("load", "ok", "", 0)
    /\ pc' = "returned"
    /\ UNCHANGED <<local, run>>

Load ==
    /\ pc \in {"start", "idle"}
    /\ snap' = config
    /\ \/ /\ store.state = "absent"
          /\ ret' = Ret("load", "err", "NotConfigured", 0)
          /\ UNCHANGED <<config, COUNTER>>
       \/ /\ store.state # "absent"
          /\ ret' = Ret("load", "err", "Read", 0)
          /\ UNCHANGED <<config, COUNTER>>
       \/ /\ store.state = "unparseable"
          /\ ret' = Ret("load", "err", "Format", 0)
          /\ UNCHANGED <<config, COUNTER>>
       \/ /\ store.state = "file"
          /\ COUNTER + IdsToGenerate(store.doc) <= MaxIds
          /\ \E clk \in [1 .. IdsToGenerate(store.doc) -> Clock] :
                LET parsed == Deserialize(store.doc, clk, COUNTER)
                    counter1 == COUNTER + parsed.used
                    ensured == ensure_service_ids(parsed.cfg, clk, parsed.used, counter1)
                IN  /\ config' = ensured.cfg
                    /\ COUNTER' = counter1 + ensured.used
          /\ ret' = Ret("load", "ok", "", 0)
    /\ pc' = "returned"
    /\ UNCHANGED <<store, local, run>>

(***************************************************************************)
(* Config::get_default_service, called on the loaded Config.               *)
(***************************************************************************)
Resolve ==
    /\ pc = "idle"
    /\ snap' = config
    /\ ret' = IF get_default_service(config) = 0
              THEN Ret("resolve", "err", "NoService", 0)
              ELSE Ret("resolve", "ok", "", get_default_service(config))
    /\ pc' = "returned"
    /\ UNCHANGED <<config, store, COUNTER, local, run>>

(***************************************************************************)
(* Config::edit_service.  "Prompt" is any failure of a prompt, of the      *)
(* number's parsing or of a collaborator of the entry's input.             *)
(***************************************************************************)
\* self.services[selection - 1] = new_config
\* A variant that also makes the edited entry the default.
ReplaceEntry_as_default(c, selection, entry) ==
    [c EXCEPT !.services[selection] = entry,
              !.default_service_id = entry.id,
              !.default_service = entry.service]

ReplaceEntry(c, selection, entry) == [c EXCEPT !.services[selection] = entry]

\* A variant of the bound check that turns the last position away.
InvalidSelection_excluding_last(c, selection) ==
    selection < 1 \/ selection >= Len(c.services)

\* selection < 1 || selection > self.services.len(), on the parsed usize.
InvalidSelection(c, selection) == selection < 1 \/ selection > Len(c.services)

Edit ==
    /\ pc = "idle"
    /\ snap' = config
    /\ \/ /\ Len(config.services) = 0
          /\ ret' = Ret("edit", "err", "Empty", 0)
          /\ UNCHANGED <<config, store, COUNTER>>
       \/ /\ Len(config.services) > 0
          /\ ret' = Ret("edit", "err", "Prompt", 0)
          /\ UNCHANGED <<config, store, COUNTER>>
       \/ /\ Len(config.services) > 0
          /\ \E selection \in 0 .. (MaxServices + 1) :
                IF InvalidSelection(config, selection)
                THEN /\ ret' = Ret("edit", "err", "Index", selection)
                     /\ UNCHANGED <<config, store, COUNTER>>
                ELSE \E inp \in UserInputs, now \in Clock :
                        LET got == input_service_config_with_default(
                                       config.services[selection], inp, now, COUNTER)
                            new == ReplaceEntry(config, selection, got.entry)
                        IN  /\ COUNTER + got.used <= MaxIds
                            /\ config' = new
                            /\ COUNTER' = COUNTER + got.used
                            /\ \E w \in save(new, store) :
                                  /\ store' = w.store
                                  /\ ret' = IF w.ok THEN Ret("edit", "ok", "", selection)
                                            ELSE Ret("edit", "err", "Save", selection)
    /\ pc' = "returned"
    /\ UNCHANGED <<local, run>>

(***************************************************************************)
(* Config::remove_service.  The prompt's validator only lets a number in   *)
(* 1..len through.                                                         *)
(***************************************************************************)
RemoveAt(ss, i) == [j \in 1 .. (Len(ss) - 1) |-> IF j < i THEN ss[j] ELSE ss[j + 1]]

\* self.services.remove(selection - 1) and the re-election of the default.
\* A variant that removes the entry and elects no new default.
RemoveEntry_without_election(c, selection) ==
    [c EXCEPT !.services = RemoveAt(c.services, selection)]

RemoveEntry(c, selection) ==
    LET removed == c.services[selection]
        rest == RemoveAt(c.services, selection)
    IN  IF removed.id = c.default_service_id /\ Len(rest) > 0
        THEN [c EXCEPT !.services = rest,
                       !.default_service_id = rest[1].id,
                       !.default_service = rest[1].service]
        ELSE [c EXCEPT !.services = rest]

Remove ==
    /\ pc = "idle"
    /\ snap' = config
    /\ \/ /\ Len(config.services) = 0
          /\ ret' = Ret("remove", "err", "Empty", 0)
          /\ UNCHANGED <<config, store>>
       \/ /\ Len(config.services) > 0
          /\ ret' = Ret("remove", "err", "Prompt", 0)
          /\ UNCHANGED <<config, store>>
       \/ /\ Len(config.services) > 0
          /\ \E selection \in 1 .. Len(config.services) :
                LET new == RemoveEntry(config, selection)
                IN  /\ config' = new
                    /\ \E w \in save(new, store) :
                          /\ store' = w.store
                          /\ ret' = IF w.ok THEN Ret("remove", "ok", "", selection)
                                    ELSE Ret("remove", "err", "Save", selection)
    /\ pc' = "returned"
    /\ UNCHANGED <<COUNTER, local, run>>

(***************************************************************************)
(* Config::set_default_service.                                            *)
(***************************************************************************)
\* A variant that sets the id and leaves default_service as it was.
SelectDefault_id_only(c, selection) ==
    [c EXCEPT !.default_service_id = c.services[selection].id]

SelectDefault(c, selection) ==
    LET selected_service == c.services[selection]
    IN  [c EXCEPT !.default_service_id = selected_service.id,
                  !.default_service = selected_service.service]

SetDefault ==
    /\ pc = "idle"
    /\ snap' = config
    /\ \/ /\ Len(config.services) = 0
          /\ ret' = Ret("set_default", "err", "Empty", 0)
          /\ UNCHANGED <<config, store>>
       \/ /\ Len(config.services) > 0
          /\ ret' = Ret("set_default", "err", "Prompt", 0)
          /\ UNCHANGED <<config, store>>
       \/ /\ Len(config.services) > 0
          /\ \E selection \in 1 .. Len(config.services) :
                LET new == SelectDefault(config, selection)
                IN  /\ config' = new
                    /\ \E w \in save(new, store) :
                          /\ store' = w.store
                          /\ ret' = IF w.ok THEN Ret("set_default", "ok", "", selection)
                                    ELSE Ret("set_default", "err", "Save", selection)
    /\ pc' = "returned"
    /\ UNCHANGED <<COUNTER, local, run>>

(***************************************************************************)
(* Config::add_service_impl.  The handler waits for the user and for the   *)
(* translator between its steps:                                           *)
(*   AddInput      the entry is read and pushed (lines 433-529)            *)
(*   AddTest       "test the service?", create_translator and the          *)
(*                 translator's answer (532-565)                           *)
(*   AddDecide     the choice after a failed test (579-605)                *)
(* A retry re-enters AddInput for the same service.                        *)
(***************************************************************************)
AddCandidate(service, inp, timestamp, counter) ==
    IF service = "Copilot"
    THEN [ service      |-> "Copilot",
           api_key      |-> Token,
           api_endpoint |-> None,
           model        |-> IF inp.listed /\ inp.model # None THEN inp.model
                            ELSE Some("copilot-chat"),
           id           |-> generate_service_id(timestamp, counter) ]
    ELSE input_service_config_with_default(
             BlankEntry(service, timestamp, counter), inp, timestamp,
             fetch_add(counter)).entry

\* A variant that makes every pushed entry the default.
Push_as_default(c, entry) ==
    [c EXCEPT !.default_service_id = entry.id,
              !.default_service = entry.service,
              !.services = Append(c.services, entry)]

Push(c, entry) ==
    IF Len(c.services) = 0
    THEN [c EXCEPT !.default_service_id = entry.id,
                   !.default_service = entry.service,
                   !.services = Append(c.services, entry)]
    ELSE [c EXCEPT !.services = Append(c.services, entry)]

\* A variant that removes nothing.
Pop_keeping_entry(ss) == ss

Pop(ss) == IF Len(ss) = 0 THEN ss ELSE SubSeq(ss, 1, Len(ss) - 1)

AddInput ==
    /\ pc \in {"idle", "add_input"}
    /\ Len(config.services) < MaxServices
    /\ COUNTER < MaxIds
    /\ snap' = IF pc = "idle" THEN config ELSE snap
    /\ \E service \in IF pc = "idle" THEN Kinds ELSE {local.service} :
          \/ /\ ret' = Ret("add", "err", "Input", 0)
             /\ COUNTER' = IF service = "Copilot" THEN COUNTER ELSE fetch_add(COUNTER)
             /\ pc' = "returned"
             /\ local' = NoLocal
             /\ UNCHANGED config
          \/ \E inp \in UserInputs, now \in Clock :
                LET entry == AddCandidate(service, inp, now, COUNTER)
                IN  /\ config' = Push(config, entry)
                    /\ COUNTER' = fetch_add(COUNTER)
                    /\ local' = [NoLocal EXCEPT !.service = service, !.entry = Some(entry)]
                    /\ pc' = "add_test"
                    /\ ret' = Running("add")
    /\ UNCHANGED <<store, run>>

\* A variant that returns Ok where the handler saves, and writes nothing.
AddReturn_without_save(saving, why) ==
    /\ store' = store
    /\ ret' = Ret("add", IF saving THEN "ok" ELSE "err", why, Len(config.services))
    /\ pc' = "returned"

\* The handler returns: Ok or Err, after self.save()? when `saving`.
AddReturn(saving, why) ==
    /\ IF saving
       THEN \E w \in save(config, store) :
               /\ store' = w.store
               /\ ret' = IF w.ok THEN Ret("add", "ok", why, Len(config.services))
                         ELSE Ret("add", "err", "Save", Len(config.services))
       ELSE /\ store' = store
            /\ ret' = Ret("add", "err", why, Len(config.services))
    /\ pc' = "returned"

AddTest ==
    /\ pc = "add_test"
    /\ \/ AddReturn(FALSE, "Prompt")
       \/ AddReturn(TRUE, "Untested")
       \/ AddReturn(FALSE, "Translator")
       \/ AddReturn(TRUE, "Validated")
       \/ /\ pc' = "add_decide"
          /\ UNCHANGED <<store, ret>>
    /\ UNCHANGED <<config, COUNTER, local, snap, run>>

AddDecide ==
    /\ pc = "add_decide"
    /\ \/ /\ AddReturn(FALSE, "Prompt")
          /\ UNCHANGED config
       \/ /\ COUNTER < MaxIds
          /\ config' = [config EXCEPT !.services = Pop(config.services)]
          /\ pc' = "add_input"
          /\ UNCHANGED <<store, ret>>
       \/ /\ AddReturn(TRUE, "Forced")
          /\ UNCHANGED config
       \/ /\ config' = [config EXCEPT !.services = Pop(config.services)]
          /\ pc' = "returned"
          /\ ret' = Ret("add", "err", "Abandon", 0)
          /\ UNCHANGED store
    /\ UNCHANGED <<COUNTER, local, snap, run>>

(***************************************************************************)
(* Config::interactive_config_impl, the initial setup.  It has no Config   *)
(* to start from: `config` below is its local variable of that name, and   *)
(* local.services its vector `services`.                                   *)
(*   SetupAdd        one round of the entry loop (259-307)                 *)
(*   SetupFinish     the default is chosen, the file written (309-350)     *)
(*   SetupTest       "test the translation?", create_translator and the    *)
(*                   translator's answer (353-379)                         *)
(*   SetupDecide     the choice after a failed test (392-419)              *)
(* A retry writes the file and re-enters the function from its start.      *)
(* The setup is the first-run command: it is started when no usable        *)
(* configuration file exists.                                              *)
(***************************************************************************)
\* Config::input_service_config on its Ok paths: the blank entry takes an
\* identifier, and the Copilot token path another.
input_service_config(service, inp, timestamp, counter) ==
    LET got == input_service_config_with_default(
                   BlankEntry(service, timestamp, counter), inp, timestamp,
                   fetch_add(counter))
    IN  [entry |-> got.entry, used |-> 1 + got.used]

\* fs::write(&config_path, to_string_pretty(&config)) after create_dir_all.
write_config(c, file) == save(c, file)

SetupReturn(res, why) ==
    /\ pc' = "returned"
    /\ ret' = Ret("setup", res, why, local.default_index)

SetupAdd ==
    /\ pc \in {"start", "setup_loop"}
    /\ pc = "start" => store.state # "file"
    /\ Len(local.services) < MaxServices
    /\ COUNTER < MaxIds
    /\ snap' = NoSnap
    /\ \/ /\ pc' = "returned"
          /\ ret' = Ret("setup", "err", "Input", 0)
          /\ COUNTER' = fetch_add(COUNTER)
          /\ UNCHANGED local
       \/ \E service \in Kinds, inp \in UserInputs, now \in Clock :
             LET got == input_service_config(service, inp, now, COUNTER)
             IN  /\ COUNTER + got.used <= MaxIds
                 /\ COUNTER' = COUNTER + got.used
                 /\ local' = [local EXCEPT !.services = Append(local.services, got.entry)]
                 /\ pc' = "setup_loop"
                 /\ ret' = Running("setup")
    /\ UNCHANGED <<config, store, run>>

SetupFinish ==
    /\ pc = "setup_loop"
    /\ \/ /\ Len(local.services) = 0
          /\ pc' = "returned"
          /\ ret' = Ret("setup", "err", "Empty", 0)
          /\ UNCHANGED <<config, store, local>>
       \/ /\ Len(local.services) > 0
          /\ \E default_index \in 1 .. Len(local.services) :
                LET new == [NewConfig EXCEPT
                               !.default_service_id = local.services[default_index].id,
                               !.default_service = local.services[default_index].service,
                               !.services = local.services]
                IN  /\ config' = new
                    /\ local' = [local EXCEPT !.default_index = default_index]
                    /\ \E w \in write_config(new, store) :
                          /\ store' = w.store
                          /\ pc' = IF w.ok THEN "setup_test" ELSE "returned"
                          /\ ret' = IF w.ok THEN ret
                                    ELSE Ret("setup", "err", "Save", default_index)
    /\ UNCHANGED <<COUNTER, snap, run>>

SetupTest ==
    /\ pc = "setup_test"
    /\ \/ SetupReturn("err", "Prompt")
       \/ SetupReturn("ok", "Untested")
       \/ SetupReturn("err", "Translator")
       \/ SetupReturn("ok", "Validated")
       \/ /\ pc' = "setup_decide"
          /\ UNCHANGED ret
    /\ UNCHANGED <<config, store, COUNTER, local, snap, run>>

SetupDecide ==
    /\ pc = "setup_decide"
    /\ \/ /\ SetupReturn("err", "Prompt")
          /\ UNCHANGED <<config, store, COUNTER, local>>
       \/ /\ COUNTER < MaxIds
          /\ SetupReturn("err", "Input")
          /\ COUNTER' = fetch_add(COUNTER)
          /\ UNCHANGED <<config, store, local>>
       \/ \E inp \in UserInputs, now \in Clock :
             LET got == input_service_config(config.default_service, inp, now, COUNTER)
                 new == [config EXCEPT
                            !.services = Append(Pop(config.services), got.entry)]
             IN  /\ COUNTER + got.used <= MaxIds
                 /\ COUNTER' = COUNTER + got.used
                 /\ config' = new
                 /\ \E w \in write_config(new, store) :
                       /\ store' = w.store
                       /\ IF w.ok
                          THEN /\ pc' = "setup_loop"
                               /\ local' = NoLocal
                               /\ ret' = ret
                          ELSE /\ SetupReturn("err", "Save")
                               /\ local' = local
       \/ /\ SetupReturn("ok", "Forced")
          /\ UNCHANGED <<config, store, COUNTER, local>>
       \/ /\ SetupReturn("err", "Abandon")
          /\ UNCHANGED <<config, store, COUNTER, local>>
    /\ UNCHANGED <<snap, run>>

(***************************************************************************)
(* The handler's result reaches the command that called it.  An Err (and   *)
(* the setup, which owns no Config) ends the command: the process is about *)
(* to end and its Config is dropped.  After an Ok the Config is used again.*)
(***************************************************************************)
Return ==
    /\ pc = "returned"
    /\ IF ret.res = "err" \/ ret.op = "setup"
       THEN /\ pc' = "done"
            /\ config' = NewConfig
       ELSE /\ pc' = "idle"
            /\ config' = config
    /\ ret' = NoRet
    /\ snap' = NoSnap
    /\ local' = NoLocal
    /\ UNCHANGED <<store, COUNTER, run>>

(***************************************************************************)
(* The process ends and the next one starts: the Config and the handler's  *)
(* locals are gone, COUNTER starts at 0 again, the file stays.             *)
(***************************************************************************)
Exit ==
    /\ pc \in {"start", "idle", "done"}
    /\ run < MaxRuns
    /\ run' = run + 1
    /\ pc' = "start"
    /\ config' = NewConfig
    /\ COUNTER' = 0
    /\ local' = NoLocal
    /\ ret' = NoRet
    /\ snap' = NoSnap
    /\ UNCHANGED store

Next ==
    \/ New
    \/ Load
    \/ Resolve
    \/ AddInput
    \/ AddTest
    \/ AddDecide
    \/ Edit
    \/ Remove
    \/ SetDefault
    \/ SetupAdd
    \/ SetupFinish
    \/ SetupTest
    \/ SetupDecide
    \/ Return
    \/ Exit

Spec == Init /\ [][Next]_vars

\* The same program started on a file whose Copilot entry has no token.
SpecBlankToken == InitBlankToken /\ [][Next]_vars

(***************************************************************************)
(* The resolver on arbitrary registries: any default_service_id (empty,    *)
(* an entry's, nobody's), any default_service, entries with empty and with *)
(* repeated ids, as a hand-edited file can hold them.                      *)
(***************************************************************************)
ResolverKinds == {"OpenAI", "Claude", "Copilot"}

ResolverIds == {EmptyId, <<1, 0>>, <<1, 1>>}

ResolverEntries ==
    { [service |-> k, api_key |-> "k1", api_endpoint |-> None, model |-> None, id |-> i] :
        k \in ResolverKinds, i \in ResolverIds }

ResolverConfigs ==
    { [NewConfig EXCEPT !.services = ss, !.default_service_id = d, !.default_service = k] :
        ss \in UNION { [1 .. n -> ResolverEntries] : n \in 0 .. MaxServices },
        d \in ResolverIds \cup {<<2, 0>>},
        k \in ResolverKinds }

InitResolver ==
    /\ config \in ResolverConfigs
    /\ store = NoFile
    /\ COUNTER = 0
    /\ pc = "idle"
    /\ local = NoLocal
    /\ ret = NoRet
    /\ snap = NoSnap
    /\ run = 1

NextResolver == Resolve \/ Return

SpecResolver == InitResolver /\ [][NextResolver]_vars

(***************************************************************************)
(* The commands that work on a loaded Config, started on the files written *)
(* before identifiers existed: every id of these behaviours was assigned   *)
(* by a load.                                                              *)
(***************************************************************************)
NextMigration ==
    \/ Load
    \/ Edit
    \/ Remove
    \/ SetDefault
    \/ Return
    \/ Exit

SpecMigration == Init /\ [][NextMigration]_vars

(***************************************************************************)
(* Config::load on the files it can parse: entries with a stored id, an    *)
(* empty id or none, a default_service_id that is absent, empty, or names  *)
(* a stored id, and any subset of the fields with a serde default present  *)
(* (with a value that is not the default).                                 *)
(***************************************************************************)
StoredId(j) == <<MaxClock + 1, j>>

LoadEntries(j) ==
    { [ service      |-> default_service_type,
        api_key      |-> "k1",
        api_endpoint |-> None,
        model        |-> None,
        id           |-> i ] :
        i \in {None, Some(EmptyId), Some(StoredId(j))} }

LoadServices ==
    UNION { { ss \in [1 .. n -> UNION { LoadEntries(j) : j \in 1 .. n }] :
                \A j \in 1 .. n : ss[j] \in LoadEntries(j) } :
            n \in 0 .. MaxServices }

LoadDocs ==
    { [ default_service_id |-> d,
        default_service    |-> k,
        services           |-> ss,
        ai_review          |-> a,
        timeout_seconds    |-> t,
        max_tokens         |-> m,
        gerrit             |-> None,
        only_chinese       |-> c,
        only_english       |-> c ] :
        d \in {None, Some(EmptyId)} \cup { Some(StoredId(j)) : j \in 1 .. MaxServices },
        k \in {None, Some("Copilot")},
        ss \in LoadServices,
        a \in {None, Some(FALSE)},
        t \in {None, Some(30)},
        m \in {None, Some(1024)},
        c \in {None, Some(TRUE)} }

LoadStores == { File(d) : d \in LoadDocs }

InitLoad == Start(LoadStores)

NextLoad == Load \/ Return

SpecLoad == InitLoad /\ [][NextLoad]_vars

(***************************************************************************)
(* Config::save followed by Config::load: the process holds a valid        *)
(* registry (entries with different non-empty ids, a default_service_id    *)
(* that names one of them, any policy values) and has just saved it.       *)
(***************************************************************************)
ValidEntries(j) ==
    { [ service      |-> k,
        api_key      |-> "k1",
        api_endpoint |-> e,
        model        |-> m,
        id           |-> StoredId(j) ] :
        k \in Kinds, e \in {None, Some("e1")}, m \in {None, Some("m1")} }

ValidServices ==
    UNION { { ss \in [1 .. n -> UNION { ValidEntries(j) : j \in 1 .. n }] :
                \A j \in 1 .. n : ss[j] \in ValidEntries(j) } :
            n \in 0 .. MaxServices }

ValidRegistries ==
    { [ default_service_id |-> d,
        default_service    |-> k,
        services           |-> ss,
        ai_review          |-> a,
        timeout_seconds    |-> t,
        max_tokens         |-> m,
        gerrit             |-> g,
        only_chinese       |-> c,
        only_english       |-> FALSE ] :
        d \in {EmptyId} \cup { StoredId(j) : j \in 1 .. MaxServices },
        k \in Kinds,
        ss \in ValidServices,
        a \in BOOLEAN,
        t \in {default_timeout, 30},
        m \in {default_max_tokens, 1024},
        g \in {None, Some("gerrit")},
        c \in BOOLEAN }

InitRoundTrip ==
    /\ config \in { r \in ValidRegistries :
                       IF Len(r.services) = 0 THEN r.default_service_id = EmptyId
                       ELSE HasId(r.services, r.default_service_id) }
    /\ store = File(Serialize(config))
    /\ COUNTER = 0
    /\ pc = "idle"
    /\ local = NoLocal
    /\ ret = NoRet
    /\ snap = NoSnap
    /\ run = 1

NextRoundTrip == Load \/ Return

SpecRoundTrip == InitRoundTrip /\ [][NextRoundTrip]_vars

(***************************************************************************)
(* The add flow under the scheduling its code has: a prompt returns an     *)
(* answer or an error (dialoguer's interact() blocks until then), the      *)
(* translator call of the test returns, and the user who is asked after    *)
(* every failed test does not answer "reconfigure" for ever.               *)
(***************************************************************************)
NextAdd == Load \/ AddInput \/ AddTest \/ AddDecide \/ Return

SpecAddFair ==
    /\ Init
    /\ [][NextAdd]_vars
    /\ WF_vars(pc = "add_input" /\ AddInput)
    /\ WF_vars(AddTest)
    /\ WF_vars(AddDecide)
    /\ SF_vars(AddDecide /\ pc' = "returned")

(***************************************************************************)
(* generate_service_id on its own, as every caller runs it within one      *)
(* process: SystemTime::now() is any reading of the wall clock, also one   *)
(* before UNIX_EPOCH (a negative number here); duration_since(UNIX_EPOCH)  *)
(* is Err for such a reading and unwrap() then panics; otherwise the       *)
(* milliseconds and COUNTER.fetch_add(1) are formatted.  local.services    *)
(* is the list of the entries built with the results, one per call, in     *)
(* the order of the calls (the blank entry of input_service_config).       *)
(***************************************************************************)
SystemTimes == (0 - 1) .. MaxClock

duration_since(now) == IF now < 0 THEN None ELSE Some(now)

NewId ==
    /\ pc = "idle"
    /\ COUNTER < MaxCalls
    /\ \E now \in SystemTimes :
          IF duration_since(now) = None
          THEN /\ pc' = "panicked"
               /\ ret' = Ret("new_id", "panic", "Clock", 0)
               /\ UNCHANGED <<COUNTER, local>>
          ELSE /\ local' = [local EXCEPT !.services =
                               Append(local.services,
                                      BlankEntry(default_service_type,
                                                 duration_since(now)[1], COUNTER))]
               /\ COUNTER' = fetch_add(COUNTER)
               /\ UNCHANGED <<pc, ret>>
    /\ UNCHANGED <<config, store, snap, run>>

InitGenerator ==
    /\ config = NewConfig
    /\ store = NoFile
    /\ COUNTER = 0
    /\ pc = "idle"
    /\ local = NoLocal
    /\ ret = NoRet
    /\ snap = NoSnap
    /\ run = 1

NextGenerator == NewId

SpecGenerator == InitGenerator /\ [][NextGenerator]_vars

(***************************************************************************)
(* Properties.                                                             *)
(***************************************************************************)
Min(S) == CHOOSE m \in S : \A x \in S : m <= x

Returned(op) == pc = "returned" /\ ret.op = op

\* C1: on a non-empty registry get_default_service returns the first entry
\* whose id is default_service_id when that is non-empty and some entry has
\* it (whatever default_service is), otherwise the first entry whose kind is
\* default_service, otherwise the first entry; the result is an entry of the
\* registry.
C1_ResolverPriority ==
    (Returned("resolve") /\ Len(config.services) > 0) =>
        LET ss == config.services
            byId == {i \in 1 .. Len(ss) : ss[i].id = config.default_service_id}
            byKind == {i \in 1 .. Len(ss) : ss[i].service = config.default_service}
        IN  /\ ret.res = "ok"
            /\ ret.idx \in 1 .. Len(ss)
            /\ ret.idx = IF config.default_service_id # EmptyId /\ byId # {}
                         THEN Min(byId)
                         ELSE IF byKind # {} THEN Min(byKind)
                         ELSE 1

\* C1 witness: the id picks the second entry although the first entry has
\* the default kind.
C1_Witness ==
    /\ Returned("resolve")
    /\ Len(config.services) = 2
    /\ config.default_service_id # EmptyId
    /\ config.services[2].id = config.default_service_id
    /\ config.services[1].id # config.default_service_id
    /\ config.services[1].service = config.default_service
    /\ config.services[2].service # config.default_service
    /\ ret.idx = 2

\* C2: after a successful load, add, edit, remove or set-default, a
\* non-empty registry has a default_service_id that is the id of one of its
\* entries.
C2_DefaultIdReferencesEntry ==
    (pc = "returned" /\ ret.res = "ok" /\ ret.op \in Mutations \cup {"load"}
        /\ Len(config.services) > 0)
    => HasId(config.services, config.default_service_id)

\* C3: removing the entry whose id is default_service_id, with an entry
\* remaining, makes the first remaining entry the default (id and kind) in
\* memory and in the file the same handler writes; removing another entry
\* leaves default_service_id and default_service as they were.
C3_RemoveReelectsDefault ==
    (Returned("remove") /\ ret.idx > 0) =>
        LET removed == snap.services[ret.idx]
            first == IF ret.idx = 1 THEN 2 ELSE 1
        IN  /\ (removed.id = snap.default_service_id /\ Len(snap.services) > 1) =>
                 /\ config.default_service_id = snap.services[first].id
                 /\ config.default_service = snap.services[first].service
                 /\ ret.res = "ok" =>
                       /\ store.doc.default_service_id = Some(snap.services[first].id)
                       /\ store.doc.default_service = Some(snap.services[first].service)
            /\ removed.id # snap.default_service_id =>
                 /\ config.default_service_id = snap.default_service_id
                 /\ config.default_service = snap.default_service

\* C3 witness: the default entry, first of two of different kinds, was
\* removed and the file written.
C3_Witness ==
    /\ Returned("remove")
    /\ ret.res = "ok"
    /\ ret.idx = 1
    /\ Len(snap.services) = 2
    /\ snap.services[1].id = snap.default_service_id
    /\ snap.services[2].id # snap.default_service_id
    /\ snap.services[2].service # snap.default_service

\* C4: when a remove empties the registry, default_service_id is the empty
\* string afterwards, in memory and in the file written.
C4_RemoveLastClearsDefault ==
    (Returned("remove") /\ ret.res = "ok" /\ Len(config.services) = 0) =>
        /\ config.default_service_id = EmptyId
        /\ store.doc.default_service_id = Some(EmptyId)

\* C5: an add, edit, remove or set-default that returns an error leaves the
\* in-memory Config as it was when the handler was entered.
C5_FailedMutationLeavesConfig ==
    (pc = "returned" /\ ret.res = "err" /\ ret.op \in Mutations) => config = snap

\* C6: when the test of a new entry fails and the user abandons, the handler
\* returns an error and the entry that failed is neither in the registry in
\* memory (add flow) nor in the configuration file (add flow and setup).
C6_AbandonRollsBack ==
    (pc = "returned" /\ ret.why = "Abandon") =>
        /\ ret.res = "err"
        /\ ret.op = "add" =>
              /\ \A i \in 1 .. Len(config.services) : config.services[i] # local.entry[1]
              /\ \A i \in 1 .. Len(store.doc.services) :
                    store.doc.services[i] # SerializeEntry(local.entry[1])
        /\ ret.op = "setup" =>
              \A i \in 1 .. Len(store.doc.services) :
                 store.doc.services[i] #
                     SerializeEntry(config.services[local.default_index])

\* C7: a successful edit keeps the id of the entry at the edited position.
C7_EditKeepsId ==
    (Returned("edit") /\ ret.res = "ok") =>
        config.services[ret.idx].id = snap.services[ret.idx].id

\* C8: a successful edit changes nothing but the entry at the edited
\* position: default_service_id, default_service, the number of entries,
\* the entries at the other positions and the policy fields are as before.
C8_EditFrame ==
    (Returned("edit") /\ ret.res = "ok") =>
        /\ Len(config.services) = Len(snap.services)
        /\ \A j \in 1 .. Len(snap.services) :
              j # ret.idx => config.services[j] = snap.services[j]
        /\ [config EXCEPT !.services = <<>>] = [snap EXCEPT !.services = <<>>]

\* C8 witness: the default entry, first of two, was edited and its content
\* changed.
C8_Witness ==
    /\ Returned("edit")
    /\ ret.res = "ok"
    /\ ret.idx = 1
    /\ Len(snap.services) = 2
    /\ snap.services[1].id = snap.default_service_id
    /\ config.services[1] # snap.services[1]

\* C9: in every state between two handlers and after a handler that
\* returned Ok, no two entries of the registry have the same id.
C9_UniqueIds ==
    (pc = "idle" \/ (pc = "returned" /\ ret.res = "ok")) =>
      \A i, j \in 1 .. Len(config.services) :
        i # j => config.services[i].id # config.services[j].id

\* C10: the add flow appends its entry as the last one; added to an empty
\* registry the entry becomes the default (id and kind); added to a
\* non-empty registry it leaves default_service_id, default_service and the
\* entries already there as they were.
C10_AddAppends ==
    (pc = "add_test" \/ (Returned("add") /\ ret.res = "ok")) =>
        /\ config.services = Append(snap.services, local.entry[1])
        /\ Len(snap.services) = 0 =>
              /\ config.default_service_id = local.entry[1].id
              /\ config.default_service = local.entry[1].service
        /\ Len(snap.services) > 0 =>
              /\ config.default_service_id = snap.default_service_id
              /\ config.default_service = snap.default_service

\* C10 witness: an entry of another kind than the default was added to a
\* non-empty registry.
C10_Witness ==
    /\ pc = "add_test"
    /\ Len(snap.services) > 0
    /\ local.entry[1].service # snap.default_service
    /\ Len(config.services) = Len(snap.services) + 1

\* C11: a set-default of a position in 1..len makes default_service_id and
\* default_service the id and kind of the entry at that position and
\* changes nothing else: the entries, their order and the policy fields are
\* as before.
C11_SetDefaultFrame ==
    (Returned("set_default") /\ ret.idx > 0) =>
        /\ ret.idx \in 1 .. Len(snap.services)
        /\ config.default_service_id = snap.services[ret.idx].id
        /\ config.default_service = snap.services[ret.idx].service
        /\ config = [snap EXCEPT !.default_service_id = config.default_service_id,
                                 !.default_service = config.default_service]

\* C11 witness: the second entry, of another kind than the default, was
\* made the default and the file written.
C11_Witness ==
    /\ Returned("set_default")
    /\ ret.res = "ok"
    /\ ret.idx = 2
    /\ snap.services[2].id # snap.default_service_id
    /\ snap.services[2].service # snap.default_service
    /\ config.default_service_id = snap.services[2].id

\* C12: when an add, edit, remove or set-default returns Ok, the
\* configuration file holds the Config in memory: the serialization of its
\* entries, default_service_id, default_service and policy fields.
C12_SuccessMeansSaved ==
    (pc = "returned" /\ ret.res = "ok" /\ ret.op \in Mutations) =>
        /\ store = File(Serialize(config))
        /\ Deserialize(store.doc, <<>>, 0).cfg = config

\* C12 witness: an edit returned Ok after it changed the entry, and the
\* file holds the changed entry.
C12_Witness ==
    /\ Returned("edit")
    /\ ret.res = "ok"
    /\ config.services[ret.idx] # snap.services[ret.idx]
    /\ store.doc.services[ret.idx] = SerializeEntry(config.services[ret.idx])

\* C13: when the test of the added entry fails and the user chooses to
\* save anyway, the entry stays the last entry of the registry in memory,
\* the file written holds the registry with it, and the add returns Ok
\* (a write that fails is the handler's Save error, not this outcome).
C13_ForceSaveKeepsEntry ==
    (Returned("add") /\ ret.why = "Forced") =>
        /\ ret.res = "ok"
        /\ Len(config.services) > 0
        /\ config.services[Len(config.services)] = local.entry[1]
        /\ store.state = "file"
        /\ Len(store.doc.services) = Len(config.services)
        /\ store.doc.services[Len(config.services)] = SerializeEntry(local.entry[1])

\* C13 witness: a second entry was saved although its test failed.
C13_Witness ==
    /\ Returned("add")
    /\ ret.why = "Forced"
    /\ Len(config.services) = 2
    /\ store.doc.services[2] = SerializeEntry(local.entry[1])

StoredIdOf(e) == IF e.id = None THEN EmptyId ELSE e.id[1]

GeneratedIds == { generate_service_id(t, n) : t \in Clock, n \in 0 .. MaxIds }

\* C14: after a load that returned Ok every entry has a non-empty id: an
\* entry stored with a non-empty id keeps it, an entry stored without id or
\* with an empty id has a generated one; and when the stored
\* default_service_id was absent or empty and there is an entry,
\* default_service_id is the id of the first entry.
C14_LoadAssignsIds ==
    (Returned("load") /\ ret.res = "ok") =>
        /\ Len(config.services) = Len(store.doc.services)
        /\ \A i \in 1 .. Len(config.services) :
              /\ config.services[i].id # EmptyId
              /\ IF StoredIdOf(store.doc.services[i]) # EmptyId
                 THEN config.services[i].id = StoredIdOf(store.doc.services[i])
                 ELSE config.services[i].id \in GeneratedIds
        /\ (OrDefault(store.doc.default_service_id, EmptyId) = EmptyId
              /\ Len(config.services) > 0)
           => config.default_service_id = config.services[1].id

\* C14 witness: the file held an entry without id before one with a stored
\* id and no default_service_id; the first got a generated id, which is the
\* default, and the second kept its own.
C14_Witness ==
    /\ Returned("load")
    /\ ret.res = "ok"
    /\ Len(config.services) = 2
    /\ store.doc.services[1].id = None
    /\ store.doc.services[2].id = Some(StoredId(2))
    /\ store.doc.default_service_id = None
    /\ config.services[1].id \in GeneratedIds
    /\ config.services[2].id = StoredId(2)
    /\ config.default_service_id = config.services[1].id

\* C15: once the registry a load migrated has been saved, a later load of
\* that file gives every entry the id it was saved with and the saved
\* default_service_id: when the file holds the registry the process had in
\* memory, a load returns that registry with the same ids and the same
\* default_service_id, and in any process a stored non-empty id or
\* default_service_id is the loaded one.
C15_MigrationIdempotent ==
    (Returned("load") /\ ret.res = "ok") =>
        /\ (store = File(Serialize(snap))
              /\ \A i \in 1 .. Len(snap.services) : snap.services[i].id # EmptyId)
           => /\ Len(config.services) = Len(snap.services)
              /\ \A i \in 1 .. Len(snap.services) :
                    config.services[i].id = snap.services[i].id
              /\ Len(snap.services) > 0 =>
                    config.default_service_id = snap.default_service_id
        /\ \A i \in 1 .. Len(store.doc.services) :
              StoredIdOf(store.doc.services[i]) # EmptyId =>
                 config.services[i].id = StoredIdOf(store.doc.services[i])
        /\ OrDefault(store.doc.default_service_id, EmptyId) # EmptyId =>
              config.default_service_id = store.doc.default_service_id[1]

\* C15 witness: a file without ids was loaded, the second of its two
\* entries made the default and the registry saved; the process loaded the
\* file again.
C15_Witness ==
    /\ Returned("load")
    /\ ret.res = "ok"
    /\ store = File(Serialize(snap))
    /\ Len(snap.services) = 2
    /\ snap.services[1].id \in GeneratedIds
    /\ snap.services[2].id \in GeneratedIds
    /\ snap.default_service_id = snap.services[2].id
    /\ config.default_service_id = snap.services[2].id

\* A document as save writes it for a valid registry: every field present,
\* every entry with a non-empty id, and a non-empty default_service_id when
\* there is an entry.
SavedValid(doc) ==
    /\ \A f \in {"default_service_id", "default_service", "ai_review",
                 "timeout_seconds", "max_tokens", "gerrit", "only_chinese",
                 "only_english"} : doc[f] # None
    /\ \A i \in 1 .. Len(doc.services) : StoredIdOf(doc.services[i]) # EmptyId
    /\ Len(doc.services) > 0 => doc.default_service_id # Some(EmptyId)

\* C16: saving what a load returns for the file of a valid registry writes
\* that file again: the entries with all their fields and their order,
\* default_service_id, default_service and the policy fields are the same.
C16_RoundTrip ==
    (Returned("load") /\ ret.res = "ok" /\ SavedValid(store.doc)) =>
        /\ Serialize(config) = store.doc
        /\ \A w \in save(config, store) : w.ok => w.store = store

\* C16 witness: the file saved for a registry of two entries, one with an
\* endpoint and one with a model, the second the default, and policy values
\* that are not the defaults, was loaded.
C16_Witness ==
    /\ Returned("load")
    /\ ret.res = "ok"
    /\ SavedValid(store.doc)
    /\ store = File(Serialize(snap))
    /\ Len(config.services) = 2
    /\ config.services[1].api_endpoint # None
    /\ config.services[2].model # None
    /\ config.default_service_id = config.services[2].id
    /\ config.default_service # config.services[2].service
    /\ config.timeout_seconds # default_timeout
    /\ config.ai_review # default_ai_review
    /\ config.gerrit # None

\* The value a load gives a field: the stored one, or `d` when absent.
Backfilled(field, d) ==
    config[field] = IF store.doc[field] = None THEN d ELSE store.doc[field][1]

\* C17: a load of a parseable file succeeds whichever of the defaulted
\* fields the file lacks (it fails only when the file cannot be read), and
\* each absent field has its default: ai_review true, timeout_seconds 20,
\* max_tokens 2048, only_chinese false, only_english false, default_service
\* OpenAI, default_service_id empty (which the migration then replaces by
\* the first entry's id when there is an entry); a field the file holds has
\* the stored value.
C17_LoadBackfillsDefaults ==
    (Returned("load") /\ store.state = "file") =>
        /\ ret.res = "err" => ret.why = "Read"
        /\ ret.res = "ok" =>
              /\ Backfilled("ai_review", TRUE)
              /\ Backfilled("timeout_seconds", 20)
              /\ Backfilled("max_tokens", 2048)
              /\ Backfilled("only_chinese", FALSE)
              /\ Backfilled("only_english", FALSE)
              /\ Backfilled("default_service", "OpenAI")
              /\ store.doc.default_service_id = None =>
                    config.default_service_id =
                        IF Len(config.services) = 0 THEN EmptyId
                        ELSE config.services[1].id
              /\ (store.doc.default_service_id # None
                    /\ store.doc.default_service_id # Some(EmptyId)) =>
                    config.default_service_id = store.doc.default_service_id[1]

\* C17 witness: the file lacked ai_review, timeout_seconds, default_service
\* and default_service_id and held max_tokens and the language flags.
C17_Witness ==
    /\ Returned("load")
    /\ ret.res = "ok"
    /\ store.doc.ai_review = None
    /\ store.doc.timeout_seconds = None
    /\ store.doc.default_service = None
    /\ store.doc.default_service_id = None
    /\ store.doc.max_tokens = Some(1024)
    /\ store.doc.only_chinese = Some(TRUE)
    /\ Len(config.services) = 0
    /\ config.timeout_seconds = 20
    /\ config.max_tokens = 1024
    /\ config.default_service_id = EmptyId

\* C18: a load never changes the configuration file: with no file it
\* returns the not-configured error and there is still no file, and after a
\* load that generated ids or set default_service_id the file is as it was;
\* the file changes only in a step of a handler that saves (add, edit,
\* remove, set-default, the setup).
C18_LoadLeavesStore ==
    [][ /\ (pc # "returned" /\ pc' = "returned" /\ ret'.op = "load") =>
              /\ store' = store
              /\ store.state = "absent" =>
                    (ret'.res = "err" /\ ret'.why = "NotConfigured")
        /\ store' # store => ret'.op \in Mutations \cup {"setup"}
      ]_vars

\* C18 witness: a load gave ids to the entries of a file and set
\* default_service_id, and the file still has neither.
C18_Witness ==
    /\ Returned("load")
    /\ ret.res = "ok"
    /\ Len(config.services) = 2
    /\ \A i \in 1 .. 2 :
          /\ store.doc.services[i].id = None
          /\ config.services[i].id \in GeneratedIds
    /\ store.doc.default_service_id = None
    /\ config.default_service_id = config.services[1].id

\* C19: on a registry without entries an edit, a remove and a set-default
\* each return the error of the empty registry and get_default_service the
\* error that no service is configured; none of them returns an entry,
\* changes the Config or writes the file.
C19_EmptyRegistryGuards ==
    [][ (pc = "idle" /\ Len(config.services) = 0 /\ pc' = "returned"
            /\ ret'.op \in {"edit", "remove", "set_default", "resolve"}) =>
          /\ ret'.res = "err"
          /\ ret'.why = IF ret'.op = "resolve" THEN "NoService" ELSE "Empty"
          /\ ret'.idx = 0
          /\ config' = config
          /\ store' = store
      ]_vars

\* C19 witness: get_default_service failed on the registry loaded from a
\* file whose list of entries is empty.
C19_Witness ==
    /\ Returned("resolve")
    /\ ret.res = "err"
    /\ ret.why = "NoService"
    /\ Len(config.services) = 0
    /\ store.state = "file"
    /\ store.doc.services = <<>>

\* C20: on a registry with entries, an edit whose number is 0 or greater
\* than the number of entries returns the index error, replaces no entry
\* and writes no file; an edit whose number is in 1..len is not turned away
\* by the bound check.
C20_EditIndexBounds ==
    [][ (pc = "idle" /\ Len(config.services) > 0 /\ pc' = "returned"
            /\ ret'.op = "edit" /\ ret'.why # "Prompt") =>
          IF ret'.idx \in 1 .. Len(config.services)
          THEN ret'.why # "Index"
          ELSE /\ ret'.res = "err"
               /\ ret'.why = "Index"
               /\ config' = config
               /\ store' = store
      ]_vars

\* C20 witness: an edit of position len+1 of a registry of two entries was
\* turned away.
C20_Witness ==
    /\ Returned("edit")
    /\ ret.why = "Index"
    /\ Len(snap.services) = 2
    /\ ret.idx = 3
    /\ config = snap

\* C21: the results of the generate_service_id calls of one process run
\* are pairwise different whatever the clock reads at each call (the same
\* millisecond included), so a result is never one an earlier call of the
\* run returned, whether or not the entry that had it still exists.
C21_IdsDistinctInRun ==
    /\ Len(local.services) = COUNTER
    /\ \A i, j \in 1 .. Len(local.services) :
          i # j => local.services[i].id # local.services[j].id

\* C21 witness: three calls of one run read the same millisecond.
C21_Witness ==
    /\ Len(local.services) >= 3
    /\ \A i \in 1 .. 3 : local.services[i].id[1] = local.services[1].id[1]
    /\ COUNTER = Len(local.services)

\* C22: generate_service_id never aborts: also when the wall clock reads a
\* time before the epoch the call returns an identifier.
C22_NewIdNeverAborts == pc # "panicked"

\* C23: save is all-or-nothing: whatever step of Config::save fails, the
\* step of add, edit, remove or set-default that calls it leaves the file
\* as it was or holding the complete serialization of the registry that
\* was being saved, never a truncated or empty file.
C23_SaveAllOrNothing ==
    [][ret'.op \in Mutations =>
          store' = store \/ store' = File(Serialize(config'))]_vars

\* C24: the decision loop of the add flow ends: a flow that has pushed its
\* entry (it is at the test, at the decision after a failed test, or at
\* the start of a retry round) eventually returns, once, with the entry
\* validated and saved, force-saved or saved untested, or with an error;
\* and every retry round starts from the entries the registry had when the
\* flow began, the failed entry removed.
C24_AddFlowEnds ==
    /\ [](pc = "add_input" => config.services = snap.services)
    /\ [](Returned("add") =>
            \/ ret.res = "ok" /\ ret.why \in {"Validated", "Forced", "Untested"}
            \/ ret.res = "err")
    /\ (pc \in {"add_test", "add_decide", "add_input"}) ~> Returned("add")

\* C24 witness: the flow ends with the entry saved after a retry round: the
\* registry had one entry, whose identifier took counter 0 at the load, the
\* Copilot entry of the first round took counter 1, the saved one a later.
C24_Witness ==
    /\ Returned("add")
    /\ ret.res = "ok"
    /\ local.service = "Copilot"
    /\ Len(snap.services) = 1
    /\ snap.services[1].id[2] = 0
    /\ Len(config.services) = 2
    /\ config.services[1] = snap.services[1]
    /\ config.services[2].id[2] >= 2

\* C25: is_default_service agrees with get_default_service: on a non-empty
\* registry that a handler has returned, is_default_service is true of
\* exactly one entry, the one at the position get_default_service returns.
C25_IsDefaultAgreesWithResolver ==
    (pc = "returned" /\ ret.res = "ok" /\ ret.op # "setup"
        /\ Len(config.services) > 0) =>
        {i \in 1 .. Len(config.services) :
            is_default_service(config, config.services[i])}
          = {get_default_service(config)}

\* The Config that serde hands to ensure_service_ids: the stored registry
\* before the migration (the identifiers serde generates for entries that
\* have no id field play no part in the resolution while default_service_id
\* is empty).
BeforeMigration(doc) ==
    Deserialize(doc, [k \in 1 .. IdsToGenerate(doc) |-> 1], 0).cfg

\* A legacy store: no default_service_id, entries without identifiers, and
\* a default_service.
LegacyStore(doc) ==
    /\ doc.default_service_id \in {None, Some(EmptyId)}
    /\ doc.default_service # None
    /\ \A i \in 1 .. Len(doc.services) :
          doc.services[i].id \in {None, Some(EmptyId)}

\* C26: the migration of a load does not change the effective default: for
\* a legacy store get_default_service returns the same position on the
\* loaded registry as on the stored registry before the migration, the
\* first entry of the kind default_service.
C26_MigrationKeepsDefault ==
    (Returned("load") /\ ret.res = "ok" /\ LegacyStore(store.doc)
        /\ Len(config.services) > 0) =>
        get_default_service(config) = get_default_service(BeforeMigration(store.doc))

\* C27: default_service_id and default_service never disagree: after a
\* successful load, add, edit, remove or set-default, an entry whose id is
\* default_service_id has the kind default_service.
C27_DefaultIdAndKindAgree ==
    (pc = "returned" /\ ret.res = "ok" /\ ret.op \in Mutations \cup {"load"}) =>
        \A i \in 1 .. Len(config.services) :
            config.services[i].id = config.default_service_id
                => config.services[i].service = config.default_service

\* C28: failed attempts do not accumulate in the add flow: when the flow
\* returns, the registry has one entry more than when it began if it
\* returns Ok, and as many if it returns an error; the entries it had are
\* unchanged and in their order.
C28_AddKeepsNoFailedEntry ==
    Returned("add") =>
        /\ Len(config.services) =
              Len(snap.services) + (IF ret.res = "ok" THEN 1 ELSE 0)
        /\ \A i \in 1 .. Len(snap.services) :
              i <= Len(config.services) /\ config.services[i] = snap.services[i]

\* C29: in the setup flow, the retry after a failed test replaces the entry
\* that failed, the chosen default, whatever its position, and the file it
\* then writes has a default_service_id that is the id of one of the
\* entries written.
C29_SetupRetryReplacesDefault ==
    [][(pc = "setup_decide" /\ pc' = "setup_loop") =>
          /\ Len(config'.services) = Len(config.services)
          /\ \A i \in 1 .. Len(config.services) :
                i # local.default_index => config'.services[i] = config.services[i]
          /\ store'.state = "file"
          /\ \E i \in 1 .. Len(store'.doc.services) :
                store'.doc.services[i].id = store'.doc.default_service_id]_vars

====
